---- MODULE Spec2Model ----
(***************************************************************************)
(* Model of src/script.py: the "swh graph" command group and its reindex   *)
(* subcommand.  One process is one command-line invocation: main, then     *)
(* graph_cli_group, then reindex, which walks Step A (<graph>.ef), Step B  *)
(* (<graph>-labelled.ef) and Step C (<graph>.node2type.bin).  The external *)
(* executables started by Rust(...).run() are the environment: a call      *)
(* blocks until the child returns, successfully or not.                    *)
(***************************************************************************)
EXTENDS Integers, Sequences, FiniteSets, TLC

VARIABLES
    pc,                \* position of the process in script.py
    argv,              \* command line: [force, ef, profile]
    config_file,       \* what config.read(config_file, DEFAULT_CONFIG) returns
    conf,              \* ctx.obj["config"]
    ef,                \* local `ef` of reindex (reassigned at line 87)
    node_count,        \* local `node_count` of reindex
    files,             \* the three derived artifacts on disk
    nodes_count_file,  \* <graph>.nodes.count.txt on disk
    snap,              \* the artifacts as they were when the process started
    trace,             \* the side effects of the current process, in order
    err,               \* the exception that ended the process, if any
    prevOk,            \* the previous process ran reindex to its end
    children           \* the steps whose child process is running

vars == <<pc, argv, config_file, conf, ef, node_count, files,
          nodes_count_file, snap, trace, err, prevOk, children>>

----------------------------------------------------------------------------
(* Bounds *)

\* longest content of <graph>.nodes.count.txt that is enumerated
MaxCountLen == 2

----------------------------------------------------------------------------
(* Names and values *)

\* the GRAPH argument, and f"{graph}-labelled"
graph == "graph"
graph_labelled == "graph-labelled"

\* f"{graph}.ef", f"{graph}-labelled.ef", f"{graph}.node2type.bin"
EfFile == "graph.ef"
LabelledEfFile == "graph-labelled.ef"
node2type_fname == "graph.node2type.bin"
Artifacts == {EfFile, LabelledEfFile, node2type_fname}

\* content of an artifact: none, what was there when the process started,
\* what a generator of this process completed, what a failed one left
FileStates == {"absent", "old", "new", "partial"}

Steps == {"A", "B", "C"}

\* the artifact each step's generator writes
ArtifactOf(step) ==
    CASE step = "A" -> EfFile
      [] step = "B" -> LabelledEfFile
      [] step = "C" -> node2type_fname

NoProfile == "<unset>"
\* values given to --profile, and profiles found in the configuration file
OptionProfiles == {"debug"}
ConfigProfiles == {"custom"}
Profiles == OptionProfiles \cup ConfigProfiles \cup {"release"}

\* DEFAULT_CONFIG holds a "graph" stanza and no "profile"
DEFAULT_CONFIG == [graph |-> TRUE, profile |-> NoProfile]

\* the characters a count file is made of, and those str.strip() removes
Chars == {" ", "\n", "7"}
IsSpace(c) == c \in {" ", "\n"}

CountContents == UNION {[1..n -> Chars] : n \in 0..MaxCountLen}

CountFiles ==
    {[state |-> "absent", content |-> <<>>],
     [state |-> "unreadable", content |-> <<>>]}
    \cup {[state |-> "ok", content |-> c] : c \in CountContents}

----------------------------------------------------------------------------
(* Pure helpers *)

\* os.path.exists
Exists(fs, name) == fs[name] # "absent"

RECURSIVE LStrip(_)
LStrip(s) ==
    IF s = <<>> THEN <<>>
    ELSE IF IsSpace(Head(s)) THEN LStrip(Tail(s)) ELSE s

RECURSIVE RStrip(_)
RStrip(s) ==
    IF s = <<>> THEN <<>>
    ELSE IF IsSpace(s[Len(s)]) THEN RStrip(SubSeq(s, 1, Len(s) - 1)) ELSE s

\* mutant: lstrip() in place of strip()
StripLeftOnly(s) == LStrip(s)

\* str.strip()
Strip(s) == RStrip(LStrip(s))

\* mutant: --force no longer implies --ef
EffectiveEfFlagOnly(efFlag, forceFlag) == efFlag

\* line 87: ef = ef or force
EffectiveEf(efFlag, forceFlag) == efFlag \/ forceFlag

\* mutant: Step A looks at the flag alone, never at the file
StaleEfFlagOnly(efv, fs) == efv

\* lines 92-94: ef or not os.path.exists(f"{graph}.ef")
StaleEf(efv, fs) == efv \/ ~Exists(fs, EfFile)

\* mutant: the `not` of the existence test is dropped
StaleLabelledInverted(efv, fs) == efv \/ Exists(fs, LabelledEfFile)

\* lines 99-102: ef or not os.path.exists(f"{graph}-labelled.ef")
StaleLabelled(efv, fs) == efv \/ ~Exists(fs, LabelledEfFile)

\* mutant: Step C also regenerates when the labelled index was just rebuilt
StaleNode2typeChained(forcev, fs) ==
    forcev \/ ~Exists(fs, node2type_fname) \/ fs[LabelledEfFile] = "new"

\* mutant: Step C regenerates whatever the flag and the file
StaleNode2typeAlways(forcev, fs) == TRUE

\* line 118: force or not os.path.exists(node2type_fname)
StaleNode2type(forcev, fs) == forcev \/ ~Exists(fs, node2type_fname)

\* lines 57-58: the --profile option overrides the configuration's profile
WithProfileOption(c, profile) ==
    IF profile # NoProfile THEN [c EXCEPT !.profile = profile] ELSE c

\* mutant: the profile is set to "release" without looking at the
\* configuration
WithDefaultProfileForced(c) == [c EXCEPT !.profile = "release"]

\* lines 89-90: "release" when the configuration has no profile
WithDefaultProfile(c) ==
    IF c.profile = NoProfile THEN [c EXCEPT !.profile = "release"] ELSE c

\* a file found at process start is old content for that process
Aged(fs) == [a \in Artifacts |-> IF fs[a] = "absent" THEN "absent" ELSE "old"]

\* no exception has been raised
NoError == [kind |-> "none", step |-> ""]

\* one observable side effect of the process
Ev(op, step, found, prefix, count, profile) ==
    [op |-> op, step |-> step, found |-> found, prefix |-> prefix,
     count |-> count, profile |-> profile]

ExistsEv(step, found) == Ev("exists", step, found, "", <<>>, NoProfile)
LogEv(step) == Ev("log", step, FALSE, "", <<>>, NoProfile)
ReadEv(count) == Ev("read", "B", FALSE, "", count, NoProfile)
UnlinkEv == Ev("unlink", "C", FALSE, "", <<>>, NoProfile)
\* Rust(..., prefix, [count,] conf=conf).run()
RunEv(step, prefix, count, c) ==
    Ev("run", step, FALSE, prefix, count, c.profile)

\* the existence probe of `flag or not os.path.exists(...)`: `or` does not
\* evaluate its right operand when the flag is set
Probe(flag, step, fs) ==
    IF flag THEN <<>> ELSE <<ExistsEv(step, Exists(fs, ArtifactOf(step)))>>

----------------------------------------------------------------------------
(* Initial state: no process has run; any artifacts may be on disk *)

Init ==
    /\ pc = "idle"
    /\ argv = [force |-> FALSE, ef |-> FALSE, profile |-> NoProfile]
    /\ config_file = DEFAULT_CONFIG
    /\ conf = DEFAULT_CONFIG
    /\ ef = FALSE
    /\ node_count = <<>>
    /\ files \in [Artifacts -> {"absent", "old"}]
    /\ nodes_count_file \in CountFiles
    /\ snap = files
    /\ trace = <<>>
    /\ err = NoError
    /\ prevOk = FALSE
    /\ children = {}

----------------------------------------------------------------------------
(* The command line *)

\* lines 126-127: a new process starts with its command line and its
\* configuration file
main ==
    /\ pc \in {"idle", "done", "error"}
    /\ \E force \in BOOLEAN, efFlag \in BOOLEAN,
          profile \in OptionProfiles \cup {NoProfile},
          stanza \in BOOLEAN, cprofile \in ConfigProfiles \cup {NoProfile} :
          /\ argv' = [force |-> force, ef |-> efFlag, profile |-> profile]
          /\ config_file' = [graph |-> stanza, profile |-> cprofile]
    /\ pc' = "graph_cli_group"
    /\ prevOk' = (pc = "done")
    /\ files' = Aged(files)
    /\ snap' = Aged(files)
    /\ trace' = <<>>
    /\ err' = NoError
    /\ ef' = FALSE
    /\ node_count' = <<>>
    /\ conf' = DEFAULT_CONFIG
    /\ children' = {}
    /\ UNCHANGED nodes_count_file

\* mutant: the "graph" stanza is not checked
graph_cli_group_unchecked ==
    /\ pc = "graph_cli_group"
    /\ conf' = WithProfileOption(config_file, argv.profile)
    /\ pc' = "reindex"
    /\ UNCHANGED <<argv, config_file, ef, node_count, files,
                   nodes_count_file, snap, trace, err, prevOk, children>>

\* lines 45-58
graph_cli_group ==
    /\ pc = "graph_cli_group"
    /\ IF ~config_file.graph
       THEN /\ pc' = "error"
            /\ err' = [kind |-> "config", step |-> ""]
            /\ UNCHANGED conf
       ELSE /\ conf' = WithProfileOption(config_file, argv.profile)
            /\ pc' = "reindex"
            /\ UNCHANGED err
    /\ UNCHANGED <<argv, config_file, ef, node_count, files,
                   nodes_count_file, snap, trace, prevOk, children>>

\* lines 87-90
reindex ==
    /\ pc = "reindex"
    /\ ef' = EffectiveEf(argv.ef, argv.force)
    /\ conf' = WithDefaultProfile(conf)
    /\ pc' = "A_check"
    /\ UNCHANGED <<argv, config_file, node_count, files, nodes_count_file,
                   snap, trace, err, prevOk, children>>

----------------------------------------------------------------------------
(* Control flow of reindex *)

\* the child process of a step's Rust(...).run() is running
Running(step) ==
    CASE step = "A" -> "A_run"
      [] step = "B" -> "B_run"
      [] step = "C" -> "C_run"

\* mutant: Step C is placed before Step B
AfterStepReordered(step) ==
    CASE step = "A" -> "C_check"
      [] step = "C" -> "B_check"
      [] step = "B" -> "done"

\* where reindex continues when a step is skipped or its run() returns
AfterStep(step) ==
    CASE step = "A" -> "B_check"
      [] step = "B" -> "C_check"
      [] step = "C" -> "done"

\* mutant: the exception is caught and reindex goes on with the next step
AfterFailureSwallowed(step) ==
    CASE step = "A" -> "B_check"
      [] step = "B" -> "C_check"
      [] step = "C" -> "done"

\* run() raises when the child fails; reindex has no try/except, so the
\* exception leaves reindex
AfterFailure(step) == "error"

\* what a successful generator leaves at its artifact
Generated(cur) == "new"

\* what a failed generator may leave at its artifact: it untouched, a
\* partial output, or nothing
FailedOutputs(cur) == {cur, "partial", "absent"}

\* mutant: Step A writes its log line before it decides
StepA_check_announcing ==
    /\ pc = "A_check"
    /\ trace' = trace \o <<LogEv("A")>> \o Probe(ef, "A", files)
    /\ pc' = IF StaleEf(ef, files) THEN "A_invoke" ELSE "B_check"
    /\ UNCHANGED <<argv, config_file, conf, ef, node_count, files,
                   nodes_count_file, snap, err, prevOk, children>>

\* lines 92-95: Step A decides
StepA_check ==
    /\ pc = "A_check"
    /\ IF StaleEf(ef, files)
       THEN /\ trace' = trace \o Probe(ef, "A", files) \o <<LogEv("A")>>
            /\ pc' = "A_invoke"
       ELSE /\ trace' = trace \o Probe(ef, "A", files)
            /\ pc' = AfterStep("A")
    /\ UNCHANGED <<argv, config_file, conf, ef, node_count, files,
                   nodes_count_file, snap, err, prevOk, children>>

\* mutant: Step A starts the generator and does not wait for it
StepA_invoke_detached ==
    /\ pc = "A_invoke"
    /\ trace' = Append(trace, RunEv("A", graph, <<>>, conf))
    /\ pc' = "B_check"
    /\ children' = children \cup {"A"}
    /\ UNCHANGED <<argv, config_file, conf, ef, node_count, files,
                   nodes_count_file, snap, err, prevOk>>

\* mutant: Step A removes <graph>.ef before it starts the generator
StepA_invoke_unlinking ==
    /\ pc = "A_invoke"
    /\ files' = [files EXCEPT ![EfFile] = "absent"]
    /\ trace' = Append(trace, RunEv("A", graph, <<>>, conf))
    /\ pc' = "A_run"
    /\ children' = children \cup {"A"}
    /\ UNCHANGED <<argv, config_file, conf, ef, node_count,
                   nodes_count_file, snap, err, prevOk>>

\* line 96: Rust("swh-graph-index", "ef", f"{graph}", conf=conf).run()
StepA_invoke ==
    /\ pc = "A_invoke"
    /\ trace' = Append(trace, RunEv("A", graph, <<>>, conf))
    /\ pc' = Running("A")
    /\ children' = children \cup {"A"}
    /\ UNCHANGED <<argv, config_file, conf, ef, node_count, files,
                   nodes_count_file, snap, err, prevOk>>

\* lines 99-102: Step B decides
StepB_check ==
    /\ pc = "B_check"
    /\ trace' = trace \o Probe(ef, "B", files)
    /\ pc' = IF StaleLabelled(ef, files) THEN "B_read" ELSE AfterStep("B")
    /\ UNCHANGED <<argv, config_file, conf, ef, node_count, files,
                   nodes_count_file, snap, err, prevOk, children>>

\* mutant: a missing or unreadable count file yields an empty count
StepB_read_defaulting ==
    /\ pc = "B_read"
    /\ node_count' = IF nodes_count_file.state = "ok"
                      THEN Strip(nodes_count_file.content) ELSE <<>>
    /\ trace' = trace \o <<ReadEv(node_count'), LogEv("B")>>
    /\ pc' = "B_invoke"
    /\ UNCHANGED <<argv, config_file, conf, ef, files, nodes_count_file,
                   snap, err, prevOk, children>>

\* lines 103-107: open() and read() raise on a missing or unreadable file;
\* the log line comes after the read
StepB_read ==
    /\ pc = "B_read"
    /\ IF nodes_count_file.state = "ok"
       THEN /\ node_count' = Strip(nodes_count_file.content)
            /\ trace' = trace \o <<ReadEv(node_count'), LogEv("B")>>
            /\ pc' = "B_invoke"
            /\ UNCHANGED err
       ELSE /\ err' = [kind |-> "read", step |-> "B"]
            /\ pc' = AfterFailure("B")
            /\ UNCHANGED <<node_count, trace>>
    /\ UNCHANGED <<argv, config_file, conf, ef, files, nodes_count_file,
                   snap, prevOk, children>>

\* lines 108-114
StepB_invoke ==
    /\ pc = "B_invoke"
    /\ trace' = Append(trace, RunEv("B", graph_labelled, node_count, conf))
    /\ pc' = Running("B")
    /\ children' = children \cup {"B"}
    /\ UNCHANGED <<argv, config_file, conf, ef, node_count, files,
                   nodes_count_file, snap, err, prevOk>>

\* lines 117-119: Step C decides
StepC_check ==
    /\ pc = "C_check"
    /\ IF StaleNode2type(argv.force, files)
       THEN /\ trace' = trace \o Probe(argv.force, "C", files)
                              \o <<LogEv("C")>>
            /\ pc' = "C_unlink"
       ELSE /\ trace' = trace \o Probe(argv.force, "C", files)
            /\ pc' = AfterStep("C")
    /\ UNCHANGED <<argv, config_file, conf, ef, node_count, files,
                   nodes_count_file, snap, err, prevOk, children>>

\* mutant: the stale file is not removed
StepC_unlink_skipped ==
    /\ pc = "C_unlink"
    /\ trace' = Append(trace, ExistsEv("C", Exists(files, node2type_fname)))
    /\ pc' = "C_invoke"
    /\ UNCHANGED <<argv, config_file, conf, ef, node_count, files,
                   nodes_count_file, snap, err, prevOk, children>>

\* lines 120-121: os.unlink raises when the file cannot be removed
StepC_unlink ==
    /\ pc = "C_unlink"
    /\ IF Exists(files, node2type_fname)
       THEN \E removed \in BOOLEAN :
              IF removed
              THEN /\ files' = [files EXCEPT ![node2type_fname] = "absent"]
                   /\ trace' = trace \o <<ExistsEv("C", TRUE), UnlinkEv>>
                   /\ pc' = "C_invoke"
                   /\ UNCHANGED err
              ELSE /\ trace' = Append(trace, ExistsEv("C", TRUE))
                   /\ err' = [kind |-> "unlink", step |-> "C"]
                   /\ pc' = AfterFailure("C")
                   /\ UNCHANGED files
       ELSE /\ trace' = Append(trace, ExistsEv("C", FALSE))
            /\ pc' = "C_invoke"
            /\ UNCHANGED <<files, err>>
    /\ UNCHANGED <<argv, config_file, conf, ef, node_count,
                   nodes_count_file, snap, prevOk, children>>

\* line 122: Rust("swh-graph-node2type", graph, conf=conf).run()
StepC_invoke ==
    /\ pc = "C_invoke"
    /\ trace' = Append(trace, RunEv("C", graph, <<>>, conf))
    /\ pc' = Running("C")
    /\ children' = children \cup {"C"}
    /\ UNCHANGED <<argv, config_file, conf, ef, node_count, files,
                   nodes_count_file, snap, err, prevOk>>

\* the child exited with status 0 and wrote its artifact; run(), which
\* waits for it, returns
RunSucceeds(step) ==
    /\ step \in children
    /\ children' = children \ {step}
    /\ files' = [files EXCEPT ![ArtifactOf(step)] = Generated(@)]
    /\ pc' = IF pc = Running(step) THEN AfterStep(step) ELSE pc
    /\ UNCHANGED <<argv, config_file, conf, ef, node_count,
                   nodes_count_file, snap, trace, err, prevOk>>

\* the child failed; run(), which waits for it, raises
RunFails(step) ==
    /\ step \in children
    /\ children' = children \ {step}
    /\ \E left \in FailedOutputs(files[ArtifactOf(step)]) :
          files' = [files EXCEPT ![ArtifactOf(step)] = left]
    /\ err' = IF pc = Running(step)
              THEN [kind |-> "run", step |-> step] ELSE err
    /\ pc' = IF pc = Running(step) THEN AfterFailure(step) ELSE pc
    /\ UNCHANGED <<argv, config_file, conf, ef, node_count,
                   nodes_count_file, snap, trace, prevOk>>

Next ==
    \/ main
    \/ graph_cli_group
    \/ reindex
    \/ StepA_check
    \/ StepA_invoke
    \/ StepB_check
    \/ StepB_read
    \/ StepB_invoke
    \/ StepC_check
    \/ StepC_unlink
    \/ StepC_invoke
    \/ \E step \in Steps : RunSucceeds(step)
    \/ \E step \in Steps : RunFails(step)

Spec == Init /\ [][Next]_vars

\* The process is scheduled until it ends and the command is run again; a
\* generator that is started again and again eventually succeeds.
Fairness ==
    /\ WF_vars(main)
    /\ WF_vars(graph_cli_group)
    /\ WF_vars(reindex)
    /\ WF_vars(StepA_check)
    /\ WF_vars(StepA_invoke)
    /\ WF_vars(StepB_check)
    /\ WF_vars(StepB_read)
    /\ WF_vars(StepB_invoke)
    /\ WF_vars(StepC_check)
    /\ WF_vars(StepC_unlink)
    /\ WF_vars(StepC_invoke)
    /\ \A step \in Steps : SF_vars(RunSucceeds(step))

\* The re-runs are followed with <graph>.nodes.count.txt readable; what it
\* holds has no part in the decisions of reindex.
FairInit ==
    /\ Init
    /\ nodes_count_file = [state |-> "ok", content |-> <<"7">>]

FairSpec == FairInit /\ [][Next]_vars /\ Fairness

TypeOK ==
    /\ pc \in {"idle", "graph_cli_group", "reindex", "A_check", "A_invoke",
               "A_run", "B_check", "B_read", "B_invoke", "B_run", "C_check",
               "C_unlink", "C_invoke", "C_run", "done", "error"}
    /\ files \in [Artifacts -> FileStates]
    /\ snap \in [Artifacts -> {"absent", "old"}]
    /\ nodes_count_file \in CountFiles
    /\ ef \in BOOLEAN
    /\ prevOk \in BOOLEAN
    /\ conf.profile \in Profiles \cup {NoProfile}
    /\ Len(trace) <= 12
    /\ children \subseteq Steps

----------------------------------------------------------------------------
(* Reading the trace of the current process *)

IsRun(e) == e.op = "run"

\* how many times the generator of `step` was started
Runs(step) ==
    Cardinality({i \in DOMAIN trace : IsRun(trace[i]) /\ trace[i].step = step})

\* the steps whose generator was started, in the order they were started
RunSteps ==
    LET r == SelectSeq(trace, IsRun) IN [i \in DOMAIN r |-> r[i].step]

Count(op) == Cardinality({i \in DOMAIN trace : trace[i].op = op})

IsPrefix(s, t) == Len(s) <= Len(t) /\ s = SubSeq(t, 1, Len(s))

AllPresent(fs) == \A a \in Artifacts : fs[a] # "absent"
NonePresent(fs) == \A a \in Artifacts : fs[a] = "absent"

\* reindex is past the point where the generator of `step` is started
PastInvoke(step) ==
    CASE step = "A" -> {"A_run", "B_check", "B_read", "B_invoke", "B_run",
                        "C_check", "C_unlink", "C_invoke", "C_run", "done"}
      [] step = "B" -> {"B_run", "C_check", "C_unlink", "C_invoke", "C_run",
                        "done"}
      [] step = "C" -> {"C_run", "done"}

\* Step C has taken its decision
PastCDecision == {"C_unlink", "C_invoke", "C_run", "done"}

\* an exception of Step C ended the process
FailedInC == err.step = "C"

RunFailed(step) == err = [kind |-> "run", step |-> step]

----------------------------------------------------------------------------
(* Claims *)

\* C1 (idempotence): when the previous process ran reindex to its end and
\* the current one has neither --force nor --ef, the current one starts no
\* generator, deletes nothing and leaves the three artifacts as it found
\* them.
Idempotence ==
    (prevOk /\ ~argv.force /\ ~argv.ef) =>
        /\ Count("run") = 0
        /\ Count("unlink") = 0
        /\ Count("read") = 0
        /\ files = snap
        /\ pc \notin {"A_invoke", "A_run", "B_read", "B_invoke", "B_run",
                      "C_unlink", "C_invoke", "C_run"}

\* the second run has walked the three existence checks and ended
IdempotenceWitness ==
    /\ prevOk /\ ~argv.force /\ ~argv.ef
    /\ pc = "done"
    /\ Count("exists") = 3

\* C2 (force completeness): with --force, with or without --ef and whatever
\* artifacts were present, no step is ever skipped: as soon as reindex is
\* past a step its generator has been started exactly once, so a run that
\* reaches its end has started each of the three generators exactly once;
\* no generator is ever started twice.
ForceCompleteness ==
    argv.force =>
        /\ \A step \in Steps : Runs(step) <= 1
        /\ \A step \in Steps : pc \in PastInvoke(step) => Runs(step) = 1
        /\ pc = "done" => RunSteps = <<"A", "B", "C">>

\* a forced run over three existing artifacts has ended
ForceCompletenessWitness ==
    /\ argv.force /\ ~argv.ef
    /\ AllPresent(snap)
    /\ pc = "done"
    /\ \A step \in Steps : Runs(step) = 1

\* C3 (EF-only scope): with --ef and without --force, Steps A and B are
\* never skipped, and Step C starts its generator exactly when
\* <graph>.node2type.bin was absent at its existence check; when the file
\* was present Step C neither deletes it nor starts the generator and the
\* file stays as it was found.
EfOnlyScope ==
    (argv.ef /\ ~argv.force) =>
        /\ \A step \in {"A", "B"} :
              /\ Runs(step) <= 1
              /\ pc \in PastInvoke(step) => Runs(step) = 1
        /\ pc \in PastCDecision \/ FailedInC =>
              /\ ExistsEv("C", Exists(snap, node2type_fname))
                     \in {trace[i] : i \in DOMAIN trace}
              /\ Exists(snap, node2type_fname) =>
                    /\ Runs("C") = 0
                    /\ Count("unlink") = 0
                    /\ files[node2type_fname] = "old"
                    /\ pc = "done"
              /\ ~Exists(snap, node2type_fname) =>
                    /\ Count("unlink") = 0
                    /\ pc \in PastInvoke("C") \/ FailedInC => Runs("C") = 1
        /\ Runs("C") >= 1 => ~Exists(snap, node2type_fname)

\* an --ef run over three existing artifacts has ended: A and B were
\* regenerated and C was skipped
EfOnlyScopeWitness ==
    /\ argv.ef /\ ~argv.force
    /\ AllPresent(snap)
    /\ pc = "done"
    /\ RunSteps = <<"A", "B">>
    /\ files[node2type_fname] = "old"

\* C4 (missing node count): when Step B must run (--force or --ef, or
\* <graph>-labelled.ef absent) and <graph>.nodes.count.txt is missing or
\* unreadable, the process never gets past the read: the labelled-index
\* generator is never started, no count is ever obtained, reindex never
\* reaches its end, the read ends the process with an error, and with the
\* EF rebuild requested Step A's generator has been started before that.
MissingNodeCount ==
    (/\ nodes_count_file.state # "ok"
     /\ argv.force \/ argv.ef \/ ~Exists(snap, LabelledEfFile)) =>
        /\ Runs("B") = 0
        /\ Count("read") = 0
        /\ node_count = <<>>
        /\ pc \notin {"B_invoke", "B_run", "C_check", "C_unlink", "C_invoke",
                      "C_run", "done"}
        /\ err.kind = "read" =>
              /\ pc = "error"
              /\ ef => RunSteps = <<"A">>

\* --ef with no count file: Step A's generator ran, then the read failed
MissingNodeCountWitness ==
    /\ nodes_count_file.state = "absent"
    /\ argv.ef /\ ~argv.force
    /\ ~Exists(snap, LabelledEfFile)
    /\ err.kind = "read"
    /\ RunSteps = <<"A">>

\* C5 (stale-file clearing): <graph>.node2type.bin does not exist when its
\* generator is started nor while it runs; when the file existed at process
\* start the deletion comes before the start of the generator in the trace;
\* and after the generator failed the file does not hold its old content.
StaleFileClearing ==
    /\ pc \in {"C_invoke", "C_run"} => ~Exists(files, node2type_fname)
    /\ \A i \in DOMAIN trace :
          (IsRun(trace[i]) /\ trace[i].step = "C"
              /\ Exists(snap, node2type_fname)) =>
             \E j \in 1..(i - 1) : trace[j] = UnlinkEv
    /\ RunFailed("C") => files[node2type_fname] # "old"

\* a forced rebuild of an existing node2type.bin whose generator failed
StaleFileClearingWitness ==
    /\ argv.force
    /\ Exists(snap, node2type_fname)
    /\ RunFailed("C")
    /\ Count("unlink") = 1

\* C6 as claimed: for each of the three artifacts the file is absent when
\* its generator is started and while it runs, and a run stopped by the
\* failure of a generator does not leave the old file.
CrashLeavesMissing ==
    \A step \in Steps :
        /\ pc = Running(step) => ~Exists(files, ArtifactOf(step))
        /\ RunFailed(step) => files[ArtifactOf(step)] # "old"

\* C6 as amended: only <graph>.node2type.bin is removed before its generator
\* is started, so only for it a run stopped in the middle of the rebuild
\* cannot leave the old file; <graph>.ef and <graph>-labelled.ef are never
\* removed by reindex and are, while their generator runs, exactly as they
\* were found.
CrashLeavesMissingNode2type ==
    /\ pc = Running("C") => ~Exists(files, node2type_fname)
    /\ RunFailed("C") => files[node2type_fname] # "old"
    /\ \A step \in {"A", "B"} :
          pc = Running(step) => files[ArtifactOf(step)] = snap[ArtifactOf(step)]
    /\ \A i \in DOMAIN trace : trace[i].op = "unlink" => trace[i].step = "C"

\* the rebuild of an existing node2type.bin stopped after A and B were
\* rebuilt over their old files
CrashLeavesMissingWitness ==
    /\ AllPresent(snap)
    /\ RunFailed("C")
    /\ files[node2type_fname] = "partial"
    /\ files[EfFile] = "new"
    /\ files[LabelledEfFile] = "new"

\* every command so far had neither --force nor --ef, found its "graph"
\* stanza and could read <graph>.nodes.count.txt
PlainRerun ==
    /\ ~argv.force /\ ~argv.ef
    /\ config_file.graph
    /\ nodes_count_file.state = "ok"

\* no generator is being started or running
NoGeneratorAtWork ==
    pc \notin {"A_invoke", "A_run", "B_invoke", "B_run", "C_invoke", "C_run"}

\* C7 (convergence of re-runs): from any set of artifacts on disk, when the
\* command is run again and again without --force and --ef, with its
\* "graph" stanza and a readable <graph>.nodes.count.txt, and a generator
\* started again and again eventually succeeds, then from some point on all
\* three artifacts exist and no generator is started any more.
Convergence ==
    ([]PlainRerun) => <>[](AllPresent(files) /\ NoGeneratorAtWork)

\* a plain re-run that followed a failed one has generated node2type.bin
\* and ended with all three artifacts on disk
ConvergenceWitness ==
    /\ PlainRerun
    /\ ~prevOk
    /\ pc = "done"
    /\ AllPresent(files)
    /\ files[node2type_fname] = "new"
    /\ Exists(snap, EfFile)

\* C8 (sequential short-circuit): the failure of a step ends the process at
\* once: the trace ends with the last effect of the failing step, a failing
\* generator was started exactly once, no later step has probed, read,
\* logged, deleted or started anything, and the artifacts of the earlier
\* steps are as those steps left them (generated if regenerated, else as
\* found).
ShortCircuit ==
    /\ (err # NoError) <=> (pc = "error")
    /\ \A step \in Steps :
          RunFailed(step) =>
             /\ Runs(step) = 1
             /\ IsRun(trace[Len(trace)])
             /\ trace[Len(trace)].step = step
    /\ err.step = "A" =>
          \A i \in DOMAIN trace : trace[i].step = "A"
    /\ err.step = "B" =>
          /\ \A i \in DOMAIN trace : trace[i].step \in {"A", "B"}
          /\ err.kind = "read" => Runs("B") = 0 /\ Count("read") = 0
          /\ files[node2type_fname] = snap[node2type_fname]
    /\ err.step \in {"B", "C"} =>
          files[EfFile] = IF Runs("A") = 1 THEN "new" ELSE snap[EfFile]
    /\ err.step = "C" =>
          files[LabelledEfFile] =
             IF Runs("B") = 1 THEN "new" ELSE snap[LabelledEfFile]

\* Step B's generator failed after Step A had regenerated <graph>.ef
ShortCircuitWitness ==
    /\ RunFailed("B")
    /\ RunSteps = <<"A", "B">>
    /\ files[EfFile] = "new"
    /\ ~Exists(snap, node2type_fname)

\* C9 (configuration error fails fast): when the configuration read has no
\* "graph" stanza the process ends with the configuration error with an
\* empty trace: no existence check, no read, no deletion, no generator, and
\* reindex is never entered.
ConfigFailFast ==
    ~config_file.graph =>
        /\ pc \in {"graph_cli_group", "error"}
        /\ pc = "error" => err.kind = "config"
        /\ trace = <<>>
        /\ files = snap

\* the command was given --force over an empty directory and ended on the
\* configuration error
ConfigFailFastWitness ==
    /\ ~config_file.graph
    /\ argv.force
    /\ NonePresent(snap)
    /\ pc = "error"
    /\ err.kind = "config"

\* C10 (empty-directory scenario): without --force and --ef and with none
\* of the three artifacts on disk, the generators are started in the order
\* A, B, C, each at most once, a run that reaches its end has started
\* exactly A, B, C, and B's generator is started only after
\* <graph>.nodes.count.txt has been read, with the count that was read.
EmptyDirectoryScenario ==
    (NonePresent(snap) /\ ~argv.force /\ ~argv.ef) =>
        /\ IsPrefix(RunSteps, <<"A", "B", "C">>)
        /\ pc = "done" => RunSteps = <<"A", "B", "C">>
        /\ \A i \in DOMAIN trace :
              (IsRun(trace[i]) /\ trace[i].step = "B") =>
                 \E j \in 1..(i - 1) : trace[j] = ReadEv(trace[i].count)

\* the run over the empty directory has ended
EmptyDirectoryScenarioWitness ==
    /\ NonePresent(snap) /\ ~argv.force /\ ~argv.ef
    /\ pc = "done"
    /\ RunSteps = <<"A", "B", "C">>
    /\ Count("read") = 1
    /\ AllPresent(files)

\* the place of a step in the source
StepRank(step) ==
    CASE step = "A" -> 1
      [] step = "B" -> 2
      [] step = "C" -> 3

\* C11 (strict sequencing): in every process each generator is started at
\* most once and the generators started are started in the order A, B, C;
\* at most one child runs at any time and reindex then waits in the run()
\* that started it; while a child runs the process has no effect of its own
\* (no probe, read, log, deletion or start of a generator): its next step is
\* the return of that run(), to the next step or to the error.
StrictSequencing ==
    /\ [](/\ \A step \in Steps : Runs(step) <= 1
          /\ \A i, j \in DOMAIN RunSteps :
                i < j => StepRank(RunSteps[i]) < StepRank(RunSteps[j])
          /\ Cardinality(children) <= 1
          /\ \A step \in children : pc = Running(step))
    /\ [][\A step \in children :
             /\ trace' = trace
             /\ children' = {}
             /\ pc' \in {AfterStep(step), "error"}]_vars

\* the third generator is running after the first two have returned
StrictSequencingWitness ==
    /\ children = {"C"}
    /\ pc = "C_run"
    /\ RunSteps = <<"A", "B", "C">>
    /\ files[EfFile] = "new"
    /\ files[LabelledEfFile] = "new"

\* the process has taken the decision of `step`
Reached(step) ==
    CASE step = "A" ->
            \/ pc \in {"A_invoke"} \cup PastInvoke("A")
            \/ err.step \in {"A", "B", "C"}
      [] step = "B" ->
            \/ pc \in {"B_read", "B_invoke"} \cup PastInvoke("B")
            \/ err.step \in {"B", "C"}
      [] step = "C" ->
            \/ pc \in {"C_unlink", "C_invoke"} \cup PastInvoke("C")
            \/ err.step = "C"

\* the flag that applies to `step`: --force or --ef for A and B, --force for C
FlagFor(step) ==
    IF step = "C" THEN argv.force ELSE argv.force \/ argv.ef

\* the case in which `step` is skipped: artifact present, no applicable flag
SkipCase(step) == Exists(snap, ArtifactOf(step)) /\ ~FlagFor(step)

\* the effects of `step` in the trace
EventsOf(step) == SelectSeq(trace, LAMBDA e : e.step = step)

Logged(step) ==
    Cardinality({i \in DOMAIN trace : trace[i] = LogEv(step)})

\* a skipped step has done its existence check and nothing else
SkippedStepsDoNothing ==
    \A step \in Steps :
        (Reached(step) /\ SkipCase(step)) =>
            /\ EventsOf(step) = <<ExistsEv(step, TRUE)>>
            /\ files[ArtifactOf(step)] = snap[ArtifactOf(step)]

\* C12 as claimed: a skipped step does its existence check and nothing
\* else, and in a process that has ended each step has written its log
\* line, once, exactly when it decided to regenerate its artifact.
LoggingMatchesDecisions ==
    /\ SkippedStepsDoNothing
    /\ pc \in {"done", "error"} =>
          \A step \in Steps :
             Logged(step) =
                IF Reached(step) /\ ~SkipCase(step) THEN 1 ELSE 0

\* C12 as amended: a skipped step does its existence check and nothing
\* else; Steps A and C have written their log line, once, exactly when they
\* have decided to regenerate; Step B has written its log line, once,
\* exactly when it has decided to regenerate and has read
\* <graph>.nodes.count.txt: its log line comes after the read, so a Step B
\* whose read fails has decided to regenerate and logs nothing.  With the
\* three artifacts present and no flag a finished process has started no
\* generator and logged nothing.
LoggingFollowsRead ==
    /\ SkippedStepsDoNothing
    /\ \A step \in {"A", "C"} :
          Logged(step) = IF Reached(step) /\ ~SkipCase(step) THEN 1 ELSE 0
    /\ Logged("B") =
          IF Reached("B") /\ ~SkipCase("B") /\ Count("read") = 1
          THEN 1 ELSE 0
    /\ (Reached("B") /\ ~SkipCase("B") /\ Count("read") = 0) =>
          pc = "B_read" \/ err = [kind |-> "read", step |-> "B"]
    /\ (AllPresent(snap) /\ ~argv.force /\ ~argv.ef /\ pc = "done") =>
          Count("run") = 0 /\ Count("log") = 0

\* Step A was skipped over its existing file, then Step B decided to
\* regenerate and its read failed: no log line at all
LoggingFollowsReadWitness ==
    /\ err = [kind |-> "read", step |-> "B"]
    /\ ~argv.force /\ ~argv.ef
    /\ Exists(snap, EfFile)
    /\ ~Exists(snap, LabelledEfFile)
    /\ Count("log") = 0
    /\ EventsOf("A") = <<ExistsEv("A", TRUE)>>

\* the staleness predicate of the design notes, computed from the flags
\* and the artifacts found at process start
PureStale(step) ==
    CASE step = "A" -> argv.force \/ argv.ef \/ snap[EfFile] = "absent"
      [] step = "B" ->
            argv.force \/ argv.ef \/ snap[LabelledEfFile] = "absent"
      [] step = "C" -> argv.force \/ snap[node2type_fname] = "absent"

\* the steps whose generator was started
Executed == {step \in Steps : Runs(step) >= 1}

\* C13 (decisions equal the pure staleness predicate): in a process that
\* ran reindex to its end the steps executed are exactly the stale ones,
\* computed up front from the flags and the artifacts found at process
\* start; and at any point of any process a step executed is a stale one,
\* and a step reached and not stale has not been executed.
DecisionsArePure ==
    /\ pc = "done" => Executed = {step \in Steps : PureStale(step)}
    /\ Executed \subseteq {step \in Steps : PureStale(step)}
    /\ \A step \in Steps :
          (PureStale(step) /\ pc \in PastInvoke(step)) => step \in Executed

\* Step B alone was executed, between a skipped Step A and a skipped Step C
DecisionsArePureWitness ==
    /\ pc = "done"
    /\ ~argv.force /\ ~argv.ef
    /\ Exists(snap, EfFile)
    /\ ~Exists(snap, LabelledEfFile)
    /\ Exists(snap, node2type_fname)
    /\ Executed = {"B"}

\* the generator of a running child writes artifact `a` and exits
WrittenByItsGenerator(a) ==
    \E step \in children : a = ArtifactOf(step) /\ step \notin children'

\* reindex removes <graph>.node2type.bin: Step C has decided to regenerate,
\* no child runs, the file exists and the deletion is the process's first
RemovedByStepC(a) ==
    /\ a = node2type_fname
    /\ pc = "C_unlink"
    /\ children = {}
    /\ Logged("C") = 1
    /\ Count("unlink") = 0
    /\ files[a] # "absent"
    /\ files'[a] = "absent"
    /\ trace'[Len(trace')] = UnlinkEv

\* a new process finds the file a previous one left
FoundByNextProcess(a) ==
    /\ pc \in {"idle", "done", "error"}
    /\ pc' = "graph_cli_group"
    /\ files[a] # "absent"
    /\ files'[a] = "old"

\* C14 (the process's own effect on the files is one deletion): no step
\* ever changes <graph>.nodes.count.txt; an artifact changes only when the
\* generator of its own step writes it or when Step C, having decided to
\* regenerate, removes an existing <graph>.node2type.bin; a process deletes
\* at most once and only that file.
OwnEffectIsOneDeletion ==
    /\ [](/\ Count("unlink") <= 1
          /\ \A i \in DOMAIN trace :
                trace[i].op = "unlink" => trace[i] = UnlinkEv)
    /\ [][/\ nodes_count_file' = nodes_count_file
          /\ \A a \in Artifacts :
                files'[a] # files[a] =>
                   \/ WrittenByItsGenerator(a)
                   \/ RemovedByStepC(a)
                   \/ FoundByNextProcess(a)]_vars

\* Step C has just removed the old node2type.bin, after the generators of
\* A and B wrote their artifacts
OwnEffectIsOneDeletionWitness ==
    /\ pc = "C_invoke"
    /\ Count("unlink") = 1
    /\ snap[node2type_fname] = "old"
    /\ files[node2type_fname] = "absent"
    /\ files[EfFile] = "new"
    /\ files[LabelledEfFile] = "new"

\* t is s without its leading and trailing whitespace
IsTrimOf(t, s) ==
    \E i, j \in 0..Len(s) :
        /\ i + j <= Len(s)
        /\ t = SubSeq(s, i + 1, Len(s) - j)
        /\ \A k \in 1..i : s[k] \in {" ", "\n"}
        /\ \A k \in (Len(s) - j + 1)..Len(s) : s[k] \in {" ", "\n"}
        /\ t # <<>> => t[1] \notin {" ", "\n"} /\ t[Len(t)] \notin {" ", "\n"}

\* C15 (node count pass-through): the labelled-index generator is started
\* with the prefix <graph>-labelled and with the whitespace-trimmed content
\* of <graph>.nodes.count.txt, as read earlier in the same process and
\* after every effect of Step A; a readable count file never makes the
\* read fail, whatever it holds, and the count of Steps A and C is empty.
NodeCountPassThrough ==
    /\ \A i \in DOMAIN trace :
          (IsRun(trace[i]) /\ trace[i].step = "B") =>
             /\ trace[i].prefix = "graph-labelled"
             /\ IsTrimOf(trace[i].count, nodes_count_file.content)
             /\ \E j \in 1..(i - 1) :
                   /\ trace[j].op = "read"
                   /\ trace[j].count = trace[i].count
                   /\ \A k \in DOMAIN trace : trace[k].step = "A" => k < j
    /\ \A i \in DOMAIN trace :
          (IsRun(trace[i]) /\ trace[i].step # "B") =>
             trace[i].count = <<>> /\ trace[i].prefix = "graph"
    /\ nodes_count_file.state = "ok" => err.kind # "read"
    /\ (nodes_count_file.state = "ok" /\ pc \in {"B_invoke", "B_run"}) =>
          IsTrimOf(node_count, nodes_count_file.content)

\* a count file holding " 7": the generator of Step B runs with "7", after
\* Step A's generator ran
NodeCountPassThroughWitness ==
    /\ nodes_count_file.content = <<" ", "7">>
    /\ pc = "B_run"
    /\ RunSteps = <<"A", "B">>
    /\ node_count = <<"7">>

\* a count file of whitespace alone: the generator runs with the empty count
NodeCountEmptyReached ==
    /\ nodes_count_file.content = <<" ", "\n">>
    /\ pc = "B_run"
    /\ node_count = <<>>

\* the profile the process is to use: the --profile option, else the
\* profile of the configuration file, else "release"
ExpectedProfile ==
    IF argv.profile # NoProfile THEN argv.profile
    ELSE IF config_file.profile # NoProfile THEN config_file.profile
    ELSE "release"

\* C16 (profile selection): every generator a process starts receives the
\* value of --profile when the option was given, otherwise the profile of
\* the configuration, otherwise "release"; so all generators of a process
\* receive the same profile, and from the first step of reindex on the
\* configuration holds that profile.
ProfileSelection ==
    /\ \A i \in DOMAIN trace :
          IsRun(trace[i]) => trace[i].profile = ExpectedProfile
    /\ \A i, j \in DOMAIN trace :
          (IsRun(trace[i]) /\ IsRun(trace[j])) =>
             trace[i].profile = trace[j].profile
    /\ pc \in {"A_check", "A_invoke"} \cup PastInvoke("A") =>
          conf.profile = ExpectedProfile

\* the configuration file names a profile and no option was given: the
\* three generators ran with the profile of the file, not with "release"
ProfileSelectionWitness ==
    /\ argv.profile = NoProfile
    /\ config_file.profile = "custom"
    /\ pc = "done"
    /\ RunSteps = <<"A", "B", "C">>
    /\ \A i \in DOMAIN trace : IsRun(trace[i]) => trace[i].profile = "custom"

====
